---- MODULE Spec2Model ----
(***************************************************************************)
(* Model of demo_python.py: the two functions hello_world and add_numbers, *)
(* the module-level code that runs when the file is loaded (either as the  *)
(* main program or through an import), and a client that calls the two     *)
(* functions after importing the module.                                   *)
(*                                                                         *)
(* Python values are tagged records.  A float is kept in units of          *)
(* 1/FloatDen (so 2.5 is 5 halves) together with a class "fin", "inf",     *)
(* "-inf" or "nan"; the largest finite float is FloatMax.  Integers are    *)
(* unbounded, as in Python.                                                *)
(***************************************************************************)
EXTENDS Integers, Sequences, FiniteSets, TLC

VARIABLES name, pc, globals, stdout, stderr, exitcode, called, ret, mark

vars == <<name, pc, globals, stdout, stderr, exitcode, called, ret, mark>>

(***************************************************************************)
(* Bounds of the model.                                                    *)
(***************************************************************************)
MaxInt == 1
FloatMax == 20

FloatDen == 2

(***************************************************************************)
(* Python values and call outcomes.                                        *)
(***************************************************************************)
PyInt(n) == [t |-> "int", n |-> n]

PyFloat(h) == [t |-> "float", k |-> "fin", h |-> h]

PyInf == [t |-> "float", k |-> "inf", h |-> 0]

PyNegInf == [t |-> "float", k |-> "-inf", h |-> 0]

PyNaN == [t |-> "float", k |-> "nan", h |-> 0]

PyStr(s) == [t |-> "str", s |-> s]

PyNone == [t |-> "NoneType"]

NotImplemented == [t |-> "NotImplementedType"]

Return(v) == [kind |-> "return", val |-> v]

Raise(e) == [kind |-> "raise", exc |-> e]

Abs(n) == IF n < 0 THEN -n ELSE n

(***************************************************************************)
(* C double addition on the float representation: NaN is absorbing,        *)
(* inf + -inf is NaN, a finite sum beyond the largest finite value         *)
(* overflows to an infinity.                                               *)
(***************************************************************************)
DoubleAdd(x, y) ==
  IF x.k = "nan" \/ y.k = "nan" THEN PyNaN
  ELSE IF x.k = "inf" THEN (IF y.k = "-inf" THEN PyNaN ELSE PyInf)
  ELSE IF x.k = "-inf" THEN (IF y.k = "inf" THEN PyNaN ELSE PyNegInf)
  ELSE IF y.k # "fin" THEN y
  ELSE IF x.h + y.h > FloatDen * FloatMax THEN PyInf
  ELSE IF x.h + y.h < -(FloatDen * FloatMax) THEN PyNegInf
  ELSE PyFloat(x.h + y.h)

(***************************************************************************)
(* Conversion of an operand of float's + to a double: a float is taken as  *)
(* it is, an int is converted (OverflowError when it is too large), any    *)
(* other type makes the slot answer NotImplemented.                        *)
(***************************************************************************)
ConvertToDouble(v) ==
  IF v.t = "float" THEN Return(v)
  ELSE IF v.t = "int"
    THEN IF Abs(v.n) > FloatMax THEN Raise("OverflowError")
         ELSE Return(PyFloat(FloatDen * v.n))
  ELSE Return(NotImplemented)

\* Variant of float_add: a sum without a fractional part comes back as an int.
float_add_intresult(v, w) ==
  LET a == ConvertToDouble(v)
      b == ConvertToDouble(w)
      r == DoubleAdd(a.val, b.val)
  IN  IF a.kind = "raise" THEN a
      ELSE IF a.val = NotImplemented THEN a
      ELSE IF b.kind = "raise" THEN b
      ELSE IF b.val = NotImplemented THEN b
      ELSE IF r.k = "fin" /\ r.h % FloatDen = 0 THEN Return(PyInt(r.h \div FloatDen))
      ELSE Return(r)

\* float.__add__ / float.__radd__ : both operands are converted, left first.
float_add(v, w) ==
  LET a == ConvertToDouble(v)
      b == ConvertToDouble(w)
  IN  IF a.kind = "raise" THEN a
      ELSE IF a.val = NotImplemented THEN a
      ELSE IF b.kind = "raise" THEN b
      ELSE IF b.val = NotImplemented THEN b
      ELSE Return(DoubleAdd(a.val, b.val))

\* Variant of long_add: the operands are subtracted.
long_add_sub(v, w) ==
  IF v.t = "int" /\ w.t = "int" THEN Return(PyInt(v.n - w.n))
  ELSE Return(NotImplemented)

\* int.__add__ / int.__radd__ : exact, arbitrary precision.
long_add(v, w) ==
  IF v.t = "int" /\ w.t = "int" THEN Return(PyInt(v.n + w.n))
  ELSE Return(NotImplemented)

\* str + str concatenates; str + anything else is a TypeError.
unicode_concat(v, w) ==
  IF w.t = "str" THEN Return(PyStr(v.s \o w.s)) ELSE Raise("TypeError")

HasNbAdd(v) == v.t \in {"int", "float"}

nb_add(slotOwner, v, w) ==
  IF slotOwner.t = "int" THEN long_add(v, w) ELSE float_add(v, w)

\* Variant of BinaryAdd: the right operand's slot is never tried.
BinaryAdd_noreflect(a, b) ==
  LET r1 == IF HasNbAdd(a) THEN nb_add(a, a, b) ELSE Return(NotImplemented)
  IN  IF r1 # Return(NotImplemented) THEN r1
      ELSE IF a.t = "str" THEN unicode_concat(a, b)
      ELSE Raise("TypeError")

(***************************************************************************)
(* The + operator (a + b): the left operand's numeric slot, then the right *)
(* operand's when its type differs, then sequence concatenation of the     *)
(* left operand, else TypeError.                                           *)
(***************************************************************************)
BinaryAdd(a, b) ==
  LET r1 == IF HasNbAdd(a) THEN nb_add(a, a, b) ELSE Return(NotImplemented)
      r2 == IF r1 = Return(NotImplemented) /\ HasNbAdd(b) /\ b.t # a.t
              THEN nb_add(b, a, b) ELSE r1
  IN  IF r2 # Return(NotImplemented) THEN r2
      ELSE IF a.t = "str" THEN unicode_concat(a, b)
      ELSE Raise("TypeError")

(***************************************************************************)
(* The == operator on values, as the tests use it.                         *)
(***************************************************************************)
IsNumber(v) == v.t \in {"int", "float"}

PyEq(x, y) ==
  IF IsNumber(x) /\ IsNumber(y) THEN
    IF x.t = "int" /\ y.t = "int" THEN x.n = y.n
    ELSE IF x.t = "float" /\ y.t = "float" THEN
      x.k # "nan" /\ y.k # "nan" /\ x.k = y.k /\ (x.k = "fin" => x.h = y.h)
    ELSE IF x.t = "int" THEN y.k = "fin" /\ y.h = FloatDen * x.n
    ELSE x.k = "fin" /\ x.h = FloatDen * y.n
  ELSE x = y

(***************************************************************************)
(* str(): the text print and an f-string produce for a value.              *)
(***************************************************************************)
Digit(d) == SubSeq("0123456789", d + 1, d + 1)

RECURSIVE NatToStr(_)
NatToStr(n) == IF n < 10 THEN Digit(n) ELSE NatToStr(n \div 10) \o Digit(n % 10)

IntToStr(n) == IF n < 0 THEN "-" \o NatToStr(-n) ELSE NatToStr(n)

FloatToStr(x) ==
  IF x.k # "fin" THEN x.k
  ELSE (IF x.h < 0 THEN "-" ELSE "") \o NatToStr(Abs(x.h) \div FloatDen)
         \o "." \o Digit(((Abs(x.h) % FloatDen) * 10) \div FloatDen)

\* Variant of PyStrOf: repr() instead of str(), a string comes out quoted.
PyReprOf(v) ==
  IF v.t = "int" THEN IntToStr(v.n)
  ELSE IF v.t = "float" THEN FloatToStr(v)
  ELSE IF v.t = "str" THEN "'" \o v.s \o "'"
  ELSE "None"

PyStrOf(v) ==
  IF v.t = "int" THEN IntToStr(v.n)
  ELSE IF v.t = "float" THEN FloatToStr(v)
  ELSE IF v.t = "str" THEN v.s
  ELSE "None"

(***************************************************************************)
(* The two functions of the module.                                        *)
(***************************************************************************)
\* Variant of hello_world: another text.
hello_world_typo == Return(PyStr("Hello, World!"))

hello_world == Return(PyStr("Hello, World from Python CI!"))

\* Variant of add_numbers: a TypeError is swallowed and None returned.
add_numbers_catching(a, b) ==
  IF BinaryAdd(a, b) = Raise("TypeError") THEN Return(PyNone) ELSE BinaryAdd(a, b)

\* Variant of add_numbers: the last result is reused when the first argument
\* is the one of the call before.
add_numbers_cached(a, b) ==
  IF ret.fn = "add_numbers" /\ ret.args[1] = a THEN ret.outcome ELSE BinaryAdd(a, b)

add_numbers(a, b) == BinaryAdd(a, b)

\* The lines the bodies of the functions write to standard output: none.
hello_world_output == <<>>

add_numbers_output(a, b) == <<>>

(***************************************************************************)
(* Arguments a client may pass.                                            *)
(***************************************************************************)
IntInputs == (-MaxInt..MaxInt) \cup {FloatMax + 1}

FloatInputs == {PyFloat(3), PyFloat(4), PyFloat(5), PyInf, PyNegInf, PyNaN}

StrInputs == {"a"}

Values ==
  {PyInt(n) : n \in IntInputs} \cup FloatInputs
    \cup {PyStr(s) : s \in StrInputs} \cup {PyNone}

(***************************************************************************)
(* Call records: the function, its arguments and the outcome the caller    *)
(* observed.  called is the set of functions the module's own code has     *)
(* called while it was loaded.  ret is the latest call; mark is one        *)
(* earlier call, picked arbitrarily and then kept, against which later     *)
(* calls are compared.                                                     *)
(***************************************************************************)
NoCall == [fn |-> "none"]

CallRecord(fn, args, outcome) == [fn |-> fn, args |-> args, outcome |-> outcome]

Remember == mark' \in (IF mark = NoCall THEN {mark, ret} ELSE {mark})

Init ==
  /\ name \in {"__main__", "demo_python"}
  /\ pc = "L9"
  /\ globals = {}
  /\ stdout = <<>>
  /\ stderr = <<>>
  /\ exitcode = <<>>
  /\ called = {}
  /\ ret = NoCall
  /\ mark = NoCall

\* An exception nobody catches ends the program: traceback, exit status 1.
Uncaught(outcome) ==
  /\ stderr' = Append(stderr, outcome.exc)
  /\ exitcode' = <<1>>
  /\ pc' = "exited"
  /\ stdout' = stdout

\* print(text) after a call that wrote the lines out: one more line.
print(out, text) == stdout' = Append(stdout \o out, text)

\* line 9: def hello_world() binds the name.
DefHelloWorld ==
  /\ pc = "L9"
  /\ globals' = globals \cup {"hello_world"}
  /\ pc' = "L14"
  /\ UNCHANGED <<name, stdout, stderr, exitcode, called, ret, mark>>

\* line 14: def add_numbers(a, b) binds the name.
DefAddNumbers ==
  /\ pc = "L14"
  /\ globals' = globals \cup {"add_numbers"}
  /\ pc' = "L19"
  /\ UNCHANGED <<name, stdout, stderr, exitcode, called, ret, mark>>

\* line 19: if __name__ == "__main__":
\* Variant of IsMain: the guard is missing.
IsMainAlways == TRUE

IsMain == name = "__main__"

MainGuard ==
  /\ pc = "L19"
  /\ pc' = IF IsMain THEN "L20" ELSE "end"
  /\ UNCHANGED <<name, globals, stdout, stderr, exitcode, called, ret, mark>>

\* line 20: print(hello_world())
PrintHello ==
  /\ pc = "L20"
  /\ LET o == hello_world
     IN  /\ called' = called \cup {"hello_world"}
         /\ ret' = CallRecord("hello_world", <<>>, o)
         /\ Remember
         /\ IF o.kind = "raise" THEN Uncaught(o)
            ELSE /\ print(hello_world_output, PyStrOf(o.val))
                 /\ pc' = "L21"
                 /\ UNCHANGED <<stderr, exitcode>>
  /\ UNCHANGED <<name, globals>>

\* line 21: print(f"2 + 3 = {add_numbers(2, 3)}")
PrintSum ==
  /\ pc = "L21"
  /\ LET o == add_numbers(PyInt(2), PyInt(3))
     IN  /\ called' = called \cup {"add_numbers"}
         /\ ret' = CallRecord("add_numbers", <<PyInt(2), PyInt(3)>>, o)
         /\ Remember
         /\ IF o.kind = "raise" THEN Uncaught(o)
            ELSE /\ print(add_numbers_output(PyInt(2), PyInt(3)),
                          "2 + 3 = " \o PyStrOf(o.val))
                 /\ pc' = "end"
                 /\ UNCHANGED <<stderr, exitcode>>
  /\ UNCHANGED <<name, globals>>

\* End of the module's code: the main program exits 0, an import returns.
ModuleEnd ==
  /\ pc = "end"
  /\ IF IsMain
       THEN pc' = "exited" /\ exitcode' = <<0>>
       ELSE pc' = "imported" /\ UNCHANGED exitcode
  /\ UNCHANGED <<name, globals, stdout, stderr, called, ret, mark>>

(***************************************************************************)
(* The importing client (the test file) calls the functions.               *)
(***************************************************************************)
CallHelloWorld ==
  /\ pc = "imported"
  /\ "hello_world" \in globals
  /\ ret' = CallRecord("hello_world", <<>>, hello_world)
  /\ stdout' = stdout \o hello_world_output
  /\ Remember
  /\ UNCHANGED <<name, pc, globals, stderr, exitcode, called>>

CallAddNumbers ==
  /\ pc = "imported"
  /\ "add_numbers" \in globals
  /\ \E a \in Values, b \in Values :
       /\ ret' = CallRecord("add_numbers", <<a, b>>, add_numbers(a, b))
       /\ stdout' = stdout \o add_numbers_output(a, b)
  /\ Remember
  /\ UNCHANGED <<name, pc, globals, stderr, exitcode, called>>

ModuleStep ==
  \/ DefHelloWorld
  \/ DefAddNumbers
  \/ MainGuard
  \/ PrintHello
  \/ PrintSum
  \/ ModuleEnd

Next ==
  \/ DefHelloWorld
  \/ DefAddNumbers
  \/ MainGuard
  \/ PrintHello
  \/ PrintSum
  \/ ModuleEnd
  \/ CallHelloWorld
  \/ CallAddNumbers

Spec == Init /\ [][Next]_vars

\* The interpreter keeps executing the module's code until it ends.
FairSpec == Spec /\ WF_vars(ModuleStep)

TypeOK ==
  /\ name \in {"__main__", "demo_python"}
  /\ pc \in {"L9", "L14", "L19", "L20", "L21", "end", "exited", "imported"}
  /\ globals \subseteq {"hello_world", "add_numbers"}
  /\ called \subseteq {"hello_world", "add_numbers"}

(***************************************************************************)
(* Helpers of the properties.                                              *)
(***************************************************************************)
Greeting == [t |-> "str", s |-> "Hello, World from Python CI!"]

IsAddCall(r) == r.fn = "add_numbers"

BothNumeric(r) == IsNumber(r.args[1]) /\ IsNumber(r.args[2])

BothInt(r) == r.args[1].t = "int" /\ r.args[2].t = "int"

HasType(r, t) == r.args[1].t = t \/ r.args[2].t = t

Returned(r) == r.outcome.kind = "return"

IsNaN(v) == v.t = "float" /\ v.k = "nan"

\* An int operand too large to be converted to a float.
HasHugeInt(r) ==
  \E i \in {1, 2} : r.args[i].t = "int" /\ Abs(r.args[i].n) > FloatMax

\* mark and ret are calls of add_numbers with the two arguments exchanged.
Swapped ==
  /\ IsAddCall(mark)
  /\ IsAddCall(ret)
  /\ ret.args = <<mark.args[2], mark.args[1]>>

IsPrefix(p, q) == Len(p) <= Len(q) /\ p = SubSeq(q, 1, Len(p))

MainOutput == <<"Hello, World from Python CI!", "2 + 3 = 5">>

(***************************************************************************)
(* C1: every call of hello_world, whatever calls came before it, takes no  *)
(* argument and returns exactly the str "Hello, World from Python CI!";    *)
(* it never raises.                                                        *)
(***************************************************************************)
C1_GreetingExact ==
  \A r \in {ret, mark} :
    r.fn = "hello_world" =>
      /\ r.args = <<>>
      /\ r.outcome.kind = "return"
      /\ r.outcome.val = Greeting

\* hello_world is called by a client after a call of add_numbers.
C1_Witness ==
  /\ pc = "imported"
  /\ IsAddCall(mark)
  /\ ret.fn = "hello_world"
  /\ ret.outcome.val = Greeting

(***************************************************************************)
(* C2: for int arguments a and b, add_numbers returns an int equal to the  *)
(* mathematical sum a + b; add(2, 3) = 5, add(0, 0) = 0, add(-1, 1) = 0    *)
(* and add(10, -5) = 5.                                                    *)
(***************************************************************************)
C2_IntegerSum ==
  /\ (IsAddCall(ret) /\ BothInt(ret)) =>
       /\ Returned(ret)
       /\ ret.outcome.val.t = "int"
       /\ ret.outcome.val.n = ret.args[1].n + ret.args[2].n
  /\ add_numbers(PyInt(2), PyInt(3)) = [kind |-> "return", val |-> [t |-> "int", n |-> 5]]
  /\ add_numbers(PyInt(0), PyInt(0)) = [kind |-> "return", val |-> [t |-> "int", n |-> 0]]
  /\ add_numbers(PyInt(-1), PyInt(1)) = [kind |-> "return", val |-> [t |-> "int", n |-> 0]]
  /\ add_numbers(PyInt(10), PyInt(-5)) = [kind |-> "return", val |-> [t |-> "int", n |-> 5]]

\* A client has added a negative and a positive int.
C2_Witness ==
  /\ pc = "imported"
  /\ IsAddCall(ret)
  /\ ret.args = <<PyInt(-1), PyInt(1)>>
  /\ ret.outcome = Return(PyInt(0))

(***************************************************************************)
(* C3, as stated: whenever an argument of add_numbers is not a number, the *)
(* call fails with a TypeError that reaches the caller.                    *)
(***************************************************************************)
C3_NonNumericFails ==
  (IsAddCall(ret) /\ ~BothNumeric(ret)) => ret.outcome = [kind |-> "raise", exc |-> "TypeError"]

(***************************************************************************)
(* C3, amended: a str argument together with an int or a float argument    *)
(* (in either order) fails with a TypeError, which add_numbers does not    *)
(* catch or translate: the caller gets the TypeError and no value.  Two    *)
(* str arguments do not fail: their concatenation is returned.             *)
(***************************************************************************)
C3_StrWithNumberFails ==
  IsAddCall(ret) =>
    /\ (HasType(ret, "str") /\ (HasType(ret, "int") \/ HasType(ret, "float"))) =>
         ret.outcome = [kind |-> "raise", exc |-> "TypeError"]
    /\ (ret.args[1].t = "str" /\ ret.args[2].t = "str") =>
         ret.outcome = [kind |-> "return",
                        val |-> [t |-> "str", s |-> ret.args[1].s \o ret.args[2].s]]

\* A client has passed a str and an int, and got the TypeError.
C3_Witness ==
  /\ pc = "imported"
  /\ IsAddCall(ret)
  /\ ret.args = <<PyStr("a"), PyInt(1)>>
  /\ ret.outcome.kind = "raise"

(***************************************************************************)
(* C4, as stated: for numeric a and b, add(a, b) == add(b, a).  (Two calls *)
(* that raise the same error are taken as agreeing.)                       *)
(***************************************************************************)
C4_Commutative ==
  (Swapped /\ BothNumeric(ret)) =>
    /\ mark.outcome.kind = ret.outcome.kind
    /\ Returned(ret) => PyEq(mark.outcome.val, ret.outcome.val)
    /\ ~Returned(ret) => mark.outcome = ret.outcome

(***************************************************************************)
(* C4, amended: for numeric a and b, add(a, b) and add(b, a) have the same *)
(* outcome: both raise the same error, or both return values of the same   *)
(* type with add(a, b) == add(b, a), except that when the sum is NaN (a    *)
(* NaN operand, or infinities of opposite sign) both return NaN, which is  *)
(* not == to itself.                                                       *)
(***************************************************************************)
C4_CommutativeUnlessNaN ==
  (Swapped /\ BothNumeric(ret)) =>
    /\ mark.outcome.kind = ret.outcome.kind
    /\ ~Returned(ret) => mark.outcome = ret.outcome
    /\ Returned(ret) =>
         /\ mark.outcome.val.t = ret.outcome.val.t
         /\ IsNaN(mark.outcome.val) <=> IsNaN(ret.outcome.val)
         /\ ~IsNaN(ret.outcome.val) => PyEq(mark.outcome.val, ret.outcome.val)
         /\ IsNaN(ret.outcome.val) =>
              \/ \E i \in {1, 2} : IsNaN(ret.args[i])
              \/ {ret.args[1], ret.args[2]} = {PyInf, PyNegInf}

\* A client has called add(1, 2.0) and then add(2.0, 1); both gave 3.0.
C4_Witness ==
  /\ Swapped
  /\ mark.args = <<PyInt(1), PyFloat(4)>>
  /\ mark.outcome = Return(PyFloat(6))
  /\ ret.outcome = Return(PyFloat(6))

(***************************************************************************)
(* C5, as stated: for every pair of numeric arguments of which at least    *)
(* one is a float, add_numbers returns a float.                            *)
(***************************************************************************)
C5_FloatPromotion ==
  (IsAddCall(ret) /\ BothNumeric(ret) /\ HasType(ret, "float")) =>
    Returned(ret) /\ ret.outcome.val.t = "float"

(***************************************************************************)
(* C5, amended: for every pair of numeric arguments of which at least one  *)
(* is a float, add_numbers returns a float, unless the other argument is   *)
(* an int too large to be converted to a float: then the call raises       *)
(* OverflowError and returns nothing.  int + int stays int;                *)
(* add(2.5, 1.5) = 4.0 and add(1, 2.0) = 3.0.                              *)
(***************************************************************************)
C5_FloatPromotionInRange ==
  /\ (IsAddCall(ret) /\ BothNumeric(ret)) =>
       IF BothInt(ret) THEN Returned(ret) /\ ret.outcome.val.t = "int"
       ELSE IF HasHugeInt(ret) THEN ret.outcome = [kind |-> "raise", exc |-> "OverflowError"]
       ELSE Returned(ret) /\ ret.outcome.val.t = "float"
  /\ LET o == add_numbers(PyFloat(5), PyFloat(3))
     IN  o.kind = "return" /\ o.val.t = "float" /\ PyEq(o.val, PyFloat(8))
  /\ LET o == add_numbers(PyInt(1), PyFloat(4))
     IN  o.kind = "return" /\ o.val.t = "float" /\ PyEq(o.val, PyFloat(6))

\* A client has added the int 1 and the float 2.0 and got the float 3.0.
C5_Witness ==
  /\ pc = "imported"
  /\ IsAddCall(ret)
  /\ ret.args = <<PyInt(1), PyFloat(4)>>
  /\ ret.outcome.val = PyFloat(6)

(***************************************************************************)
(* C6: run as the main program, the module writes the greeting line and    *)
(* then the line "2 + 3 = 5" to standard output, in that order and nothing *)
(* else, nothing to standard error, and then exits with status 0.          *)
(***************************************************************************)
C6_MainSafe ==
  name = "__main__" =>
    /\ IsPrefix(stdout, MainOutput)
    /\ stderr = <<>>
    /\ (pc \in {"L9", "L14", "L19", "L20"}) => stdout = <<>>
    /\ (pc = "L21") => stdout = <<"Hello, World from Python CI!">>
    /\ (pc \in {"end", "exited"}) => stdout = MainOutput
    /\ (pc = "exited") <=> (exitcode = <<0>>)
    /\ exitcode \in {<<>>, <<0>>}

C6_MainRun == [](C6_MainSafe) /\ (name = "__main__" ~> (pc = "exited" /\ exitcode = <<0>>))

\* The main program has exited after printing both lines.
C6_Witness ==
  /\ name = "__main__"
  /\ pc = "exited"
  /\ stdout = MainOutput
  /\ exitcode = <<0>>

(***************************************************************************)
(* C7: the two functions are pure.  A call returns the very outcome an     *)
(* earlier call of the same function with equal arguments returned,        *)
(* whatever was called in between, and a call by a client changes nothing  *)
(* but the caller's record of it: no output, no global, no exit.           *)
(***************************************************************************)
C7_SameArgsSameResult ==
  (mark.fn = ret.fn /\ mark # NoCall /\ mark.args = ret.args) => mark.outcome = ret.outcome

C7_Pure ==
  /\ [](C7_SameArgsSameResult)
  /\ [][pc = "imported" =>
          UNCHANGED <<name, pc, globals, stdout, stderr, exitcode, called>>]_vars

\* The same call of add_numbers was made a second time.
C7_Witness ==
  /\ pc = "imported"
  /\ IsAddCall(mark)
  /\ mark.args = <<PyFloat(5), PyInt(1)>>
  /\ ret = mark

(***************************************************************************)
(* C8: when the module is imported, loading it writes nothing to standard  *)
(* output and calls neither function; output exists only when the module   *)
(* runs as the main program.                                               *)
(***************************************************************************)
C8_ImportSilent ==
  /\ name # "__main__" => (stdout = <<>> /\ called = {})
  /\ (name # "__main__" /\ pc # "imported") => (ret = NoCall /\ mark = NoCall)
  /\ (stdout # <<>> \/ called # {}) => name = "__main__"

\* The import has finished and the client has both functions, uncalled.
C8_Witness ==
  /\ name = "demo_python"
  /\ pc = "imported"
  /\ globals = {"hello_world", "add_numbers"}
  /\ ret = NoCall
  /\ stdout = <<>>

====
